---- MODULE Spec2Model ----
(***************************************************************************)
(* Kedro RAG assistant: the lifecycle of the process-wide knowledge-base   *)
(* handle (kedro_mcp.get_rag, rebuild_kedro_knowledge), the documentation  *)
(* and Slack ingestion of kedro_rag.KedroRAG, and the MCP tool handlers    *)
(* that read and write the Chroma collection.                              *)
(*                                                                         *)
(* The tool handlers are asyncio coroutines on one event loop: a handler   *)
(* runs without interruption from one real suspension to the next.  The    *)
(* only await that suspends is the httpx GET of build_knowledge_base, so   *)
(* every action below is the stretch of one handler between two fetches.   *)
(*                                                                         *)
(* Text is a sequence of one-character strings.                            *)
(***************************************************************************)
EXTENDS FiniteSets, Integers, Sequences, TLC

VARIABLES
    rag_system,   \* kedro_mcp.rag_system: 0 is None, else an index of rags
    rags,         \* the KedroRAG objects created so far
    chroma,       \* the persisted client state of "kedro_knowledge"
    now,          \* int(datetime.now().timestamp()) when it was last read
    pc,           \* per task: where the handler stands
    op,           \* per task: the tool being served
    arg,          \* per task: the tool's arguments
    self,         \* per task: the KedroRAG whose build is awaiting the fetch
    hist,         \* per task: what the handler went through so far (history)
    last,         \* the tool call that returned last: its dict and history
    rebuild_requested,  \* rebuild_kedro_knowledge was called (history)
    builds,       \* build_knowledge_base executions started (history)
    call          \* a KedroRAG method called directly: its inputs and result

vars == <<rag_system, rags, chroma, now, pc, op, arg, self, hist, last,
          rebuild_requested, builds, call>>

(***************************************************************************)
(* Bounds                                                                  *)
(***************************************************************************)
NumTasks == 3
MaxNow == 1

Tasks == 1..NumTasks

(***************************************************************************)
(* Text helpers (str.strip, re.split)                                      *)
(***************************************************************************)
Whitespace == {" ", "\n"}

RECURSIVE lstrip(_)
lstrip(s) ==
    IF s # <<>> /\ Head(s) \in Whitespace THEN lstrip(Tail(s)) ELSE s

RECURSIVE rstrip(_)
rstrip(s) ==
    IF s # <<>> /\ s[Len(s)] \in Whitespace
    THEN rstrip(SubSeq(s, 1, Len(s) - 1))
    ELSE s

strip(s) == rstrip(lstrip(s))

\* Length of the run of characters of set cs that starts at position p.
RECURSIVE RunLen(_, _, _)
RunLen(s, p, cs) ==
    IF p <= Len(s) /\ s[p] \in cs THEN 1 + RunLen(s, p + 1, cs) ELSE 0

\* The match of \n#{1,3}\s* : a marker needs no whitespace after it
HeaderMatchLen_no_space(s, p) ==
    IF p > Len(s) \/ s[p] # "\n" THEN 0
    ELSE LET h == RunLen(s, p + 1, {"#"})
             w == RunLen(s, p + 1 + h, Whitespace)
         IN  IF h >= 1 /\ h <= 3 THEN 1 + h + w ELSE 0

\* Length of the match of \n#{1,3}\s+ at position p of s, 0 when there is none.
\* A run of more than three '#' leaves a '#' where \s+ must start.
HeaderMatchLen(s, p) ==
    IF p > Len(s) \/ s[p] # "\n" THEN 0
    ELSE LET h == RunLen(s, p + 1, {"#"})
             w == RunLen(s, p + 1 + h, Whitespace)
         IN  IF h >= 1 /\ h <= 3 /\ w >= 1 THEN 1 + h + w ELSE 0

\* re.split(r'\n#{1,3}\s+', content): the spans between the matches, scanning
\* from position p with the current span starting at from.
RECURSIVE re_split_from(_, _, _)
re_split_from(s, p, from) ==
    IF p > Len(s) THEN << SubSeq(s, from, Len(s)) >>
    ELSE LET m == HeaderMatchLen(s, p)
         IN  IF m > 0
             THEN << SubSeq(s, from, p - 1) >> \o re_split_from(s, p + m, p + m)
             ELSE re_split_from(s, p + 1, from)

re_split(content) == re_split_from(content, 1, 1)

(***************************************************************************)
(* KedroRAG.format_documentation: the dict chunk_id -> text, as the        *)
(* sequence of its items in insertion order.                               *)
(***************************************************************************)
DocChunkId(i) == <<"kedro_doc_chunk", i>>

\* format_sections with the ordinal counted over the kept sections only
RECURSIVE format_sections_dense(_, _)
format_sections_dense(sections, i) ==
    IF i >= Len(sections) THEN <<>>
    ELSE LET section == sections[i + 1]
             rest == format_sections_dense(sections, i + 1)
             kept == Cardinality({j \in 1..i : strip(sections[j]) # <<>>})
         IN  IF strip(section) # <<>>
             THEN << [chunk_id |-> DocChunkId(kept), text |-> strip(section)] >> \o rest
             ELSE rest

RECURSIVE format_sections(_, _)
format_sections(sections, i) ==
    IF i >= Len(sections) THEN <<>>
    ELSE LET section == sections[i + 1]
             rest == format_sections(sections, i + 1)
         IN  IF strip(section) # <<>>
             THEN << [chunk_id |-> DocChunkId(i), text |-> strip(section)] >> \o rest
             ELSE rest

format_documentation(content) == format_sections(re_split(content), 0)

(***************************************************************************)
(* The Chroma collection "kedro_knowledge" of the persistent client.       *)
(* chroma.cur is the uuid of the collection the name refers to (0: no such *)
(* collection), chroma.recs its records, id -> [document, metadata].  A    *)
(* Collection object keeps the uuid it was opened with, and every call     *)
(* through a handle whose collection was deleted raises.                   *)
(***************************************************************************)
NoRecords == [id \in {} |-> id]

Live(c, collection) == collection # 0 /\ collection = c.cur

\* client.get_collection, or client.create_collection when there is none
open_or_create(c) ==
    IF c.cur # 0 THEN c ELSE [cur |-> 1, recs |-> NoRecords]

\* rag.client.delete_collection(name); rag.client.create_collection(name)
delete_and_recreate(c) == [cur |-> c.cur + 1, recs |-> NoRecords]

\* collection.count(): -1 stands for the exception of a deleted collection
collection_count(c, collection) ==
    IF Live(c, collection) THEN Cardinality(DOMAIN c.recs) ELSE -1

BatchIds(batch) == {batch[i].id : i \in 1..Len(batch)}

BatchRecord(batch, id) ==
    LET i == CHOOSE j \in 1..Len(batch) : batch[j].id = id
    IN  [document |-> batch[i].document, metadata |-> batch[i].metadata]

\* collection.add putting the batch in the place of what was stored
collection_add_replacing(c, collection, batch) ==
    LET added == [id \in BatchIds(batch) |-> BatchRecord(batch, id)]
    IN  IF ~Live(c, collection) \/ batch = <<>>
        THEN [chroma |-> c, raised |-> TRUE]
        ELSE [chroma |-> [c EXCEPT !.recs = added], raised |-> FALSE]

\* collection.add(embeddings, documents, metadatas, ids): add inserts and
\* never replaces.  The persistent client validates the batch first and
\* raises ValueError on an empty one; a record whose id is already stored
\* is skipped without an exception.
collection_add(c, collection, batch) ==
    LET ids == BatchIds(batch)
        fresh == ids \ DOMAIN c.recs
        added == [id \in fresh |-> BatchRecord(batch, id)]
    IN  IF ~Live(c, collection) \/ batch = <<>>
        THEN [chroma |-> c, raised |-> TRUE]
        ELSE [chroma |-> [c EXCEPT !.recs = added @@ c.recs], raised |-> FALSE]

Min(a, b) == IF a < b THEN a ELSE b

\* collection.query(query_embeddings, n_results, where): how many records
\* come back; -1 stands for the exception of a deleted collection.
collection_query(c, collection, n_results, where) ==
    LET matching == {id \in DOMAIN c.recs :
                        where = "" \/ c.recs[id].metadata.source = where}
    IN  IF Live(c, collection)
        THEN Min(n_results, Cardinality(matching))
        ELSE -1

(***************************************************************************)
(* KedroRAG                                                                *)
(***************************************************************************)
\* KedroRAG.__init__: opens the collection, creating it when it is missing
\* (init is history: what became of the build get_rag ran for this object;
\* unembeddable are the texts on which self.embedder.encode raises)
KedroRAG_init(c) ==
    LET opened == open_or_create(c)
    IN  [chroma |-> opened,
         rag |-> [collection |-> opened.cur, init |-> "none", unembeddable |-> {}]]

\* The outcome of `await client.get(...)` in build_knowledge_base
FetchRaise == [kind |-> "raise", status |-> 0, text |-> <<>>]
FetchResponse(status, text) == [kind |-> "response", status |-> status, text |-> text]

\* embedding_function(text) of create_embedding_function for one str: the
\* vector of that text
embed(text) == <<"embedding", text>>

\* the texts of the sequence that the embedder of rag fails on
embedding_raises(rag, texts) ==
    \E i \in 1..Len(texts) : texts[i] \in rag.unembeddable

\* the four lists handed to collection.add: every turn of the loop appends
\* one element to each
add_arguments(batch) ==
    [ids |-> [i \in 1..Len(batch) |-> batch[i].id],
     embeddings |-> [i \in 1..Len(batch) |-> batch[i].embedding],
     documents |-> [i \in 1..Len(batch) |-> batch[i].document],
     metadatas |-> [i \in 1..Len(batch) |-> batch[i].metadata]]

\* doc_batch with the metadata of every chunk taken from the first chunk
RECURSIVE doc_batch_first_metadata(_)
doc_batch_first_metadata(chunks) ==
    IF chunks = <<>> THEN <<>>
    ELSE << [id |-> Head(chunks).chunk_id,
             embedding |-> embed(Head(chunks).text),
             document |-> Head(chunks).text,
             metadata |-> [chunk_id |-> DocChunkId(0),
                           source |-> "kedro_docs"]] >>
         \o doc_batch_first_metadata(Tail(chunks))

\* the loop of build_knowledge_base over formatted_chunks.items()
RECURSIVE doc_batch(_)
doc_batch(chunks) ==
    IF chunks = <<>> THEN <<>>
    ELSE << [id |-> Head(chunks).chunk_id,
             embedding |-> embed(Head(chunks).text),
             document |-> Head(chunks).text,
             metadata |-> [chunk_id |-> Head(chunks).chunk_id,
                           source |-> "kedro_docs"]] >>
         \o doc_batch(Tail(chunks))

\* KedroRAG.build_knowledge_base from the point where the fetch has
\* returned: the status of the response is never looked at.
content_of(fetch) == fetch.text

\* writes: the size of the batch of every collection.add call made
build_knowledge_base(c, rag, fetch) ==
    IF fetch.kind = "raise"
    THEN [chroma |-> c, raised |-> TRUE, produced |-> 0, writes |-> <<>>,
          add_calls |-> <<>>]
    ELSE LET formatted_chunks == format_documentation(content_of(fetch))
             texts == [i \in 1..Len(formatted_chunks) |-> formatted_chunks[i].text]
             batch == doc_batch(formatted_chunks)
             added == collection_add(c, rag.collection, batch)
         IN  IF embedding_raises(rag, texts)
             THEN [chroma |-> c, raised |-> TRUE,
                   produced |-> Len(formatted_chunks),
                   writes |-> <<>>, add_calls |-> <<>>]
             ELSE [chroma |-> added.chroma, raised |-> added.raised,
                   produced |-> Len(formatted_chunks),
                   writes |-> << Len(formatted_chunks) >>,
                   add_calls |-> << add_arguments(batch) >>]

\* KedroRAG.search_docs: total_results, -1 when the query raised
search_docs(c, rag, query, num_results) ==
    IF query \in rag.unembeddable THEN -1
    ELSE collection_query(c, rag.collection, num_results, "")

\* Python's None as a value of source_filter
None == "None"

\* KedroRAG.search lines 216-218: the where clause, "" when there is none;
\* `if source_filter:` takes the empty string for no filter as well
where_clause(source_filter) ==
    IF source_filter \in {None, ""} THEN "" ELSE source_filter

\* KedroRAG.search: len(formatted_results), -1 when the query raised
search(c, rag, query, source_filter, top_k) ==
    IF query \in rag.unembeddable THEN -1
    ELSE collection_query(c, rag.collection, top_k, where_clause(source_filter))

\* What the index answers to a query embedding: every record of the
\* collection with its distance, <<id, distance>>, nearest first.
MaxDistance == 2
Rankings(c) ==
    LET n == Cardinality(DOMAIN c.recs)
    IN  {r \in [1..n -> (DOMAIN c.recs) \X (0..MaxDistance)] :
            /\ \A i, j \in 1..n : i < j => r[i][1] # r[j][1] /\ r[i][2] <= r[j][2]}

\* collection.query as the store of older releases answers it: asking for
\* more results than there are matching records raises
collection_query_hits_not_enough(c, collection, ranking, n_results, where) ==
    LET Matches(h) == where = "" \/ c.recs[h[1]].metadata.source = where
        matching == SelectSeq(ranking, Matches)
    IN  IF ~Live(c, collection) \/ n_results > Len(matching)
        THEN [raised |-> TRUE, hits |-> <<>>]
        ELSE [raised |-> FALSE, hits |-> SubSeq(matching, 1, n_results)]

\* collection.query(query_embeddings, n_results, where): the n_results
\* nearest of the matching records, fewer when fewer match
collection_query_hits(c, collection, ranking, n_results, where) ==
    LET Matches(h) == where = "" \/ c.recs[h[1]].metadata.source = where
        matching == SelectSeq(ranking, Matches)
    IN  IF ~Live(c, collection)
        THEN [raised |-> TRUE, hits |-> <<>>]
        ELSE [raised |-> FALSE,
              hits |-> SubSeq(matching, 1,
                              collection_query(c, collection, n_results, where))]

\* KedroRAG.search_docs: its "results", or the exception of the query
search_docs_results(c, rag, query, ranking, num_results) ==
    LET results == collection_query_hits(c, rag.collection, ranking, num_results, "")
    IN  [raised |-> results.raised,
         results |-> [i \in 1..Len(results.hits) |->
                        [content |-> c.recs[results.hits[i][1]].document,
                         chunk_id |-> results.hits[i][1],
                         metadata |-> c.recs[results.hits[i][1]].metadata,
                         relevance_score |-> 1 - results.hits[i][2]]]]

\* search with the distance itself reported as the relevance score
search_results_score_is_distance(c, rag, query, ranking, source_filter, top_k) ==
    LET results == collection_query_hits(c, rag.collection, ranking, top_k,
                                         where_clause(source_filter))
    IN  [raised |-> results.raised,
         results |-> [i \in 1..Len(results.hits) |->
                        [content |-> c.recs[results.hits[i][1]].document,
                         source |-> c.recs[results.hits[i][1]].metadata.source,
                         metadata |-> c.recs[results.hits[i][1]].metadata,
                         relevance_score |-> results.hits[i][2]]]]

\* KedroRAG.search: formatted_results, or the exception of the query
search_results(c, rag, query, ranking, source_filter, top_k) ==
    LET results == collection_query_hits(c, rag.collection, ranking, top_k,
                                         where_clause(source_filter))
    IN  [raised |-> results.raised,
         results |-> [i \in 1..Len(results.hits) |->
                        [content |-> c.recs[results.hits[i][1]].document,
                         source |-> c.recs[results.hits[i][1]].metadata.source,
                         metadata |-> c.recs[results.hits[i][1]].metadata,
                         relevance_score |-> 1 - results.hits[i][2]]]]

(***************************************************************************)
(* SlackIntegration: the pre-ingestion filter                              *)
(***************************************************************************)
UpperCase == <<"A", "B", "C", "D", "E", "F", "G", "H", "I", "J", "K", "L", "M", "N", "O", "P", "Q", "R", "S", "T", "U", "V", "W", "X", "Y", "Z">>
LowerCase == <<"a", "b", "c", "d", "e", "f", "g", "h", "i", "j", "k", "l", "m", "n", "o", "p", "q", "r", "s", "t", "u", "v", "w", "x", "y", "z">>

lower_char(ch) ==
    IF \E i \in 1..Len(UpperCase) : UpperCase[i] = ch
    THEN LowerCase[CHOOSE i \in 1..Len(UpperCase) : UpperCase[i] = ch]
    ELSE ch

lower(text) == [i \in 1..Len(text) |-> lower_char(text[i])]

\* indicator in text_lower
Contains(text, indicator) ==
    \E p \in 1..(Len(text) - Len(indicator) + 1) :
        SubSeq(text, p, p + Len(indicator) - 1) = indicator

question_indicators ==
    <<        <<"?">>, <<"h", "o", "w", " ", "d", "o">>,
       <<"h", "o", "w", " ", "t", "o">>, <<"w", "h", "a", "t", " ", "i", "s">>,
       <<"w", "h", "a", "t", " ", "a", "r", "e">>, <<"w", "h", "e", "r", "e", " ", "i", "s">>,
       <<"w", "h", "e", "r", "e", " ", "a", "r", "e">>, <<"w", "h", "e", "n", " ", "i", "s">>,
       <<"w", "h", "e", "n", " ", "d", "o">>, <<"w", "h", "y">>,
       <<"w", "h", "i", "c", "h">>, <<"c", "a", "n", " ", "i">>,
       <<"c", "o", "u", "l", "d", " ", "i">>, <<"s", "h", "o", "u", "l", "d", " ", "i">>,
       <<"h", "e", "l", "p">>, <<"i", "s", "s", "u", "e">>,
       <<"p", "r", "o", "b", "l", "e", "m">>, <<"e", "r", "r", "o", "r">>,
       <<"t", "r", "o", "u", "b", "l", "e">>, <<"s", "t", "u", "c", "k">>,
       <<"f", "a", "i", "l", "i", "n", "g">> >>

\* SlackIntegration._is_question
is_question(text) ==
    LET text_lower == lower(text)
    IN  \E i \in 1..Len(question_indicators) :
            Contains(text_lower, question_indicators[i])

SkippedSubtypes == {"bot_message", "channel_join", "channel_leave"}

\* format_messages_for_rag that never filters for questions
RECURSIVE format_messages_for_rag_unfiltered(_, _, _)
format_messages_for_rag_unfiltered(messages, channel_name, filter_questions) ==
    IF messages = <<>> THEN <<>>
    ELSE LET message == Head(messages)
             text == strip(message.text)
             rest == format_messages_for_rag_unfiltered(Tail(messages), channel_name,
                                                        filter_questions)
         IN  IF message.subtype \in SkippedSubtypes \/ text = <<>>
             THEN rest
             ELSE << [content |-> text,
                      metadata |-> [channel |-> channel_name,
                                    user |-> "Unknown User",
                                    timestamp |-> "Unknown time",
                                    message_type |-> IF is_question(text)
                                                     THEN "question"
                                                     ELSE "message"]] >>
                  \o rest

\* SlackIntegration.format_messages_for_rag; the messages modelled carry no
\* "user" and no "ts", so user and timestamp take their fall-back values.
RECURSIVE format_messages_for_rag(_, _, _)
format_messages_for_rag(messages, channel_name, filter_questions) ==
    IF messages = <<>> THEN <<>>
    ELSE LET message == Head(messages)
             text == strip(message.text)
             rest == format_messages_for_rag(Tail(messages), channel_name,
                                             filter_questions)
         IN  IF \/ message.subtype \in SkippedSubtypes
                \/ text = <<>>
                \/ (filter_questions /\ ~is_question(text))
             THEN rest
             ELSE << [content |-> text,
                      metadata |-> [channel |-> channel_name,
                                    user |-> "Unknown User",
                                    timestamp |-> "Unknown time",
                                    message_type |-> IF is_question(text)
                                                     THEN "question"
                                                     ELSE "message"]] >>
                  \o rest

(***************************************************************************)
(* KedroRAG.add_slack_data and fetch_and_store_slack_data                  *)
(***************************************************************************)
SlackId(channel_name, i, ts) == <<"slack", channel_name, i, ts>>

\* slack_batch without the test of content.strip()
RECURSIVE slack_batch_keep_blank(_, _, _, _)
slack_batch_keep_blank(slack_messages, channel_name, i, ts) ==
    IF i >= Len(slack_messages) THEN <<>>
    ELSE LET message == slack_messages[i + 1]
             rest == slack_batch_keep_blank(slack_messages, channel_name, i + 1, ts)
         IN  << [id |-> SlackId(channel_name, i, ts),
                 embedding |-> embed(message.content),
                 document |-> message.content,
                 metadata |-> [source |-> "slack",
                               channel |-> channel_name,
                               message_type |-> message.metadata.message_type,
                               user |-> message.metadata.user,
                               timestamp |-> message.metadata.timestamp]] >>
             \o rest

\* the batch add_slack_data prepares: message i of the list, counted with
\* the blank ones, gets the id slack_<channel>_<i>_<now>
RECURSIVE slack_batch(_, _, _, _)
slack_batch(slack_messages, channel_name, i, ts) ==
    IF i >= Len(slack_messages) THEN <<>>
    ELSE LET message == slack_messages[i + 1]
             rest == slack_batch(slack_messages, channel_name, i + 1, ts)
         IN  IF strip(message.content) = <<>> THEN rest
             ELSE << [id |-> SlackId(channel_name, i, ts),
                      embedding |-> embed(message.content),
                      document |-> message.content,
                      metadata |-> [source |-> "slack",
                                    channel |-> channel_name,
                                    message_type |-> message.metadata.message_type,
                                    user |-> message.metadata.user,
                                    timestamp |-> message.metadata.timestamp]] >>
                  \o rest

\* add_slack_data without the `if ids:` before the add
add_slack_data_always_add(c, rag, slack_messages, channel_name, ts) ==
    LET batch == slack_batch(slack_messages, channel_name, 0, ts)
        added == collection_add(c, rag.collection, batch)
    IN  IF embedding_raises(rag, add_arguments(batch).documents)
        THEN [chroma |-> c, raised |-> TRUE, writes |-> <<>>, add_calls |-> <<>>]
        ELSE [chroma |-> added.chroma, raised |-> added.raised,
              writes |-> << Len(batch) >>,
              add_calls |-> << add_arguments(batch) >>]

\* KedroRAG.add_slack_data: one add, and only when some message is valid
\* (writes: the size of the batch of every collection.add call made)
add_slack_data(c, rag, slack_messages, channel_name, ts) ==
    LET batch == slack_batch(slack_messages, channel_name, 0, ts)
        added == collection_add(c, rag.collection, batch)
    IN  IF embedding_raises(rag, add_arguments(batch).documents)
        THEN [chroma |-> c, raised |-> TRUE, writes |-> <<>>, add_calls |-> <<>>]
        ELSE IF batch # <<>>
        THEN [chroma |-> added.chroma, raised |-> added.raised,
              writes |-> << Len(batch) >>,
              add_calls |-> << add_arguments(batch) >>]
        ELSE [chroma |-> c, raised |-> FALSE, writes |-> <<>>, add_calls |-> <<>>]

\* KedroRAG.fetch_and_store_slack_data: slack is what the Slack client
\* delivered, [ok, channel_name, messages]; every exception becomes the
\* dict {"error": ...}, reported here as messages_added = -1.
fetch_and_store_slack_data(c, rag, slack, ts) ==
    LET formatted_messages ==
            format_messages_for_rag(slack.messages, slack.channel_name, TRUE)
        stored == add_slack_data(c, rag, formatted_messages,
                                 slack.channel_name, ts)
    IN  IF ~slack.ok THEN [chroma |-> c, messages_added |-> -1]
        ELSE IF stored.raised THEN [chroma |-> stored.chroma, messages_added |-> -1]
        ELSE [chroma |-> stored.chroma, messages_added |-> Len(formatted_messages)]

(***************************************************************************)
(* What the environment can deliver                                        *)
(***************************************************************************)
\* "a\n# b" (two chunks), "c" (one chunk, another text for chunk 0), ""
DocA == <<"a", "\n", "#", " ", "b">>
DocB == <<"c">>
Bodies == {DocA, DocB, <<>>}
\* the origin answers 200 with a body, or 503 with its error page
ErrorPage == <<"e">>
FetchOutcomes ==
    {FetchRaise, FetchResponse(503, ErrorPage)}
    \cup {FetchResponse(200, b) : b \in Bodies}

Is2xx(status) == status >= 200 /\ status <= 299

\* raw Slack messages: "why", "ok", " ", and "why" posted by a bot
Why == [text |-> <<"w", "h", "y">>, subtype |-> ""]
Ok == [text |-> <<"o", "k">>, subtype |-> ""]
Blank == [text |-> <<" ">>, subtype |-> ""]
BotWhy == [text |-> <<"W", "h", "y">>, subtype |-> "bot_message"]
SlackHistories == {<<Blank, BotWhy>>, <<Ok, Why>>, <<Why, Why>>}
\* what the Slack client delivered; ok = FALSE: one of its calls raised
SlackDeliveries ==
    {[ok |-> TRUE, channel_name |-> "general", messages |-> ms] : ms \in SlackHistories}
    \cup {[ok |-> FALSE, channel_name |-> "general", messages |-> <<>>]}

NumResults == {1, 5}
SourceFilters == {"", "kedro_docs", "slack"}

\* the collection a previous run of the server left on disk
StoreOf(body) ==
    build_knowledge_base([cur |-> 1, recs |-> NoRecords],
                         [collection |-> 1, init |-> "none", unembeddable |-> {}],
                         FetchResponse(200, body)).chroma
InitialStores == {[cur |-> 0, recs |-> NoRecords], StoreOf(DocA)}


(***************************************************************************)
(* kedro_mcp.get_rag up to its first suspension.  rs is rag_system on      *)
(* entry; init_ok tells whether makedirs and KedroRAG(...) succeed.        *)
(* outcome: "return" (line 63), "await" (suspended in line 49) or "raise"  *)
(* (line 61); rag is the object created, rag_system the global afterwards. *)
(***************************************************************************)
\* get_rag as it would be with rag_system assigned only once the build is
\* over: while the build is suspended the global is still None
\* line 47 deciding to build whatever the count
needs_build_always(collection_count_) == TRUE

\* line 47: `if collection_count == 0`
needs_build(collection_count_) == collection_count_ = 0

get_rag_assign_after_build(rs, rgs, c, init_ok) ==
    IF rs # 0
    THEN [rag_system |-> rs, rag |-> 0, rags |-> rgs, chroma |-> c,
          outcome |-> "return"]
    ELSE IF ~init_ok
    THEN [rag_system |-> 0, rag |-> 0, rags |-> rgs, chroma |-> c,
          outcome |-> "raise"]
    ELSE LET new == KedroRAG_init(c)
             building == needs_build(collection_count(new.chroma, new.rag.collection))
         IN  [rag_system |-> IF building THEN 0 ELSE Len(rgs) + 1,
              rag |-> Len(rgs) + 1,
              rags |-> Append(rgs, IF building
                                   THEN [new.rag EXCEPT !.init = "building"]
                                   ELSE new.rag),
              chroma |-> new.chroma,
              outcome |-> IF building THEN "await" ELSE "return"]

get_rag(rs, rgs, c, init_ok) ==
    IF rs # 0
    THEN [rag_system |-> rs, rag |-> 0, rags |-> rgs, chroma |-> c,
          outcome |-> "return"]
    ELSE IF ~init_ok
    THEN [rag_system |-> 0, rag |-> 0, rags |-> rgs, chroma |-> c,
          outcome |-> "raise"]
    ELSE LET new == KedroRAG_init(c)
             collection_count_ == collection_count(new.chroma, new.rag.collection)
             building == needs_build(collection_count_)
         IN  [rag_system |-> Len(rgs) + 1,
              rag |-> Len(rgs) + 1,
              rags |-> Append(rgs, IF building
                                   THEN [new.rag EXCEPT !.init = "building"]
                                   ELSE new.rag),
              chroma |-> new.chroma,
              outcome |-> IF building THEN "await" ELSE "return"]

(***************************************************************************)
(* Tasks: one tool call each                                               *)
(***************************************************************************)
NoResp == [error |-> FALSE, n |-> -1]
Error == [error |-> TRUE, n |-> -1]
Success(n) == [error |-> FALSE, n |-> n]

\* every handler's `except Exception` re-raising instead of returning
error_response_reraise(tool) == [exception |-> "raised"]

\* The dict the `except Exception` clause of each handler returns (the
\* message texts and the echoed query or topic left out); it is the dict
\* Error stands for.
error_response(tool) ==
    CASE tool = "search_kedro_docs" ->
            [error |-> "Search failed", results |-> <<>>, total_results |-> 0]
      [] tool = "get_kedro_context" ->
            [error |-> "Failed to get context", context |-> <<>>, source |-> "error"]
      [] tool = "kedro_knowledge_stats" ->
            [error |-> "Failed to get stats", status |-> "error"]
      [] tool = "rebuild_kedro_knowledge" ->
            [status |-> "error", message |-> "Failed to rebuild"]
      [] tool = "add_slack_channel_data" ->
            [status |-> "error", message |-> "Failed to add Slack data"]
      [] tool = "search_with_source_filter" ->
            [status |-> "error", message |-> "Search failed"]

NoArg == [n |-> 0, source |-> ""]
NoFetch == [kind |-> "none", status |-> 0, text |-> <<>>]
\* history of a handler in flight: init_build tells what became of the build
\* its get_rag ran, before is the collection when a rebuild was requested
NoHist == [init_build |-> "none", before |-> NoRecords]
\* the call that returned last: its dict, and of the build of its last
\* step (build: "none", "ok" or "failed") the fetch and the number of
\* chunks format_documentation produced
NoCall == [op |-> "none", arg |-> NoArg, resp |-> NoResp, init_build |-> "none",
           build |-> "none", fetch |-> NoFetch, produced |-> -1]
NoBuild == [build |-> "none", fetch |-> NoFetch, produced |-> -1]
\* no KedroRAG method has been called directly
NotCalled == [fn |-> "none"]

\* the handler returns dict r
Return(t, tool, a, r, h, b) ==
    /\ pc' = [pc EXCEPT ![t] = "done"]
    /\ op' = [op EXCEPT ![t] = "none"]
    /\ arg' = [arg EXCEPT ![t] = NoArg]
    /\ self' = [self EXCEPT ![t] = 0]
    /\ hist' = [hist EXCEPT ![t] = NoHist]
    /\ last' = [op |-> tool, arg |-> a, resp |-> r, init_build |-> h.init_build,
                build |-> b.build, fetch |-> b.fetch, produced |-> b.produced]
    /\ builds' = builds
    /\ call' = call

\* the handler suspends at the fetch of rag.build_knowledge_base()
Await(t, tool, a, where, rag, h) ==
    /\ pc' = [pc EXCEPT ![t] = where]
    /\ op' = [op EXCEPT ![t] = tool]
    /\ arg' = [arg EXCEPT ![t] = a]
    /\ self' = [self EXCEPT ![t] = rag]
    /\ hist' = [hist EXCEPT ![t] = h]
    /\ last' = last
    /\ builds' = builds + 1
    /\ call' = call

\* search_kedro_docs lines 83-92
search_kedro_docs_body(t, a, rag, rgs, c, h, b) ==
    LET total_results == search_docs(c, rgs[rag], "kedro", a.n)
    IN  /\ rags' = rgs /\ chroma' = c /\ now' = now
        /\ Return(t, "search_kedro_docs", a,
                  IF total_results < 0 THEN Error ELSE Success(total_results), h, b)

\* get_kedro_context lines 112-128: KedroRAG defines no get_context
get_kedro_context_body(t, a, rag, rgs, c, h, b) ==
    /\ rags' = rgs /\ chroma' = c /\ now' = now
    /\ Return(t, "get_kedro_context", a, Error, h, b)

\* kedro_knowledge_stats lines 146-172; whether the client object has the
\* private attribute _settings depends on the installed store
kedro_knowledge_stats_body(t, a, rag, rgs, c, h, b) ==
    \E has_settings \in BOOLEAN :
        LET sample_results == search_docs(c, rgs[rag], "kedro", 3)
            total_chunks == collection_count(c, rgs[rag].collection)
        IN  /\ rags' = rgs /\ chroma' = c /\ now' = now
            /\ Return(t, "kedro_knowledge_stats", a,
                      IF sample_results < 0 \/ total_chunks < 0 \/ ~has_settings
                      THEN Error ELSE Success(total_chunks), h, b)

\* search_with_source_filter lines 332-347
search_with_source_filter_body(t, a, rag, rgs, c, h, b) ==
    LET results == search(c, rgs[rag], "kedro", a.source, a.n)
    IN  /\ rags' = rgs /\ chroma' = c /\ now' = now
        /\ Return(t, "search_with_source_filter", a,
                  IF results < 0 THEN Error ELSE Success(results), h, b)

\* add_slack_channel_data lines 240-261; the clock is read at the ingestion
add_slack_channel_data_body(t, a, rag, rgs, c, h, b) ==
    \E slack \in SlackDeliveries, ts \in now..MaxNow :
        LET result == fetch_and_store_slack_data(c, rgs[rag], slack, ts)
        IN  /\ rags' = rgs /\ chroma' = result.chroma /\ now' = ts
            /\ Return(t, "add_slack_channel_data", a,
                      IF result.messages_added < 0 THEN Error
                      ELSE Success(result.messages_added), h, b)

\* rebuild_kedro_knowledge lines 197-202, up to the fetch of the rebuild
rebuild_kedro_knowledge_body(t, a, rag, rgs, c, h, b) ==
    LET recreated == delete_and_recreate(c)
    IN  /\ rags' = [rgs EXCEPT ![rag].collection = recreated.cur]
        /\ chroma' = recreated
        /\ now' = now
        /\ Await(t, "rebuild_kedro_knowledge", a, "rebuild_fetch", rag,
                 h)

\* what a handler does once `rag = await get_rag()` has returned rag;
\* every use of None raises AttributeError into the handler's except
Body(t, tool, a, rag, rgs, c, h, b) ==
    IF rag = 0
    THEN rags' = rgs /\ chroma' = c /\ now' = now /\ Return(t, tool, a, Error, h, b)
    ELSE CASE tool = "search_kedro_docs" -> search_kedro_docs_body(t, a, rag, rgs, c, h, b)
           [] tool = "get_kedro_context" -> get_kedro_context_body(t, a, rag, rgs, c, h, b)
           [] tool = "kedro_knowledge_stats" -> kedro_knowledge_stats_body(t, a, rag, rgs, c, h, b)
           [] tool = "search_with_source_filter" -> search_with_source_filter_body(t, a, rag, rgs, c, h, b)
           [] tool = "add_slack_channel_data" -> add_slack_channel_data_body(t, a, rag, rgs, c, h, b)
           [] tool = "rebuild_kedro_knowledge" -> rebuild_kedro_knowledge_body(t, a, rag, rgs, c, h, b)

\* tool calls are taken by the lowest free task
Free(t) == pc[t] = "idle" /\ \A u \in Tasks : u < t => pc[u] # "idle"

\* A handler from its first line to its first suspension: `await get_rag()`
\* and, when that returns at once, the rest of the handler.
\* rebuild_kedro_knowledge clears rag_system (line 192) before the call.
Serve(t, tool, a) ==
    /\ rebuild_requested' = (rebuild_requested \/ tool = "rebuild_kedro_knowledge")
    /\ \E init_ok \in (IF rag_system = 0 \/ tool = "rebuild_kedro_knowledge"
                      THEN BOOLEAN ELSE {TRUE}) :
        LET cleared == IF tool = "rebuild_kedro_knowledge" THEN 0 ELSE rag_system
            g == get_rag(cleared, rags, chroma, init_ok)
            h == IF tool = "rebuild_kedro_knowledge"
                 THEN [hist[t] EXCEPT !.before = chroma.recs]
                 ELSE hist[t]
        IN  /\ rag_system' = g.rag_system
            /\ CASE g.outcome = "raise" ->
                      /\ rags' = g.rags /\ chroma' = g.chroma /\ now' = now
                      /\ Return(t, tool, a, Error, h, NoBuild)
                 [] g.outcome = "await" ->
                      /\ rags' = g.rags /\ chroma' = g.chroma /\ now' = now
                      /\ Await(t, tool, a, "get_rag_fetch", g.rag,
                               [h EXCEPT !.init_build = "awaiting"])
                 [] g.outcome = "return" ->
                      Body(t, tool, a, g.rag_system, g.rags, g.chroma, h, NoBuild)

search_kedro_docs(t) ==
    /\ Free(t)
    /\ \E n \in NumResults :
        Serve(t, "search_kedro_docs", [n |-> n, source |-> ""])

get_kedro_context(t) ==
    /\ Free(t)
    /\ Serve(t, "get_kedro_context", [n |-> 3, source |-> ""])

kedro_knowledge_stats(t) ==
    /\ Free(t)
    /\ Serve(t, "kedro_knowledge_stats", NoArg)

rebuild_kedro_knowledge(t) ==
    /\ Free(t)
    /\ Serve(t, "rebuild_kedro_knowledge", NoArg)

add_slack_channel_data(t) ==
    /\ Free(t)
    /\ Serve(t, "add_slack_channel_data", NoArg)

search_with_source_filter(t) ==
    /\ Free(t)
    /\ \E source \in SourceFilters :
        Serve(t, "search_with_source_filter", [n |-> 5, source |-> source])

\* The fetch of the build started by get_rag (line 49) returns: the build
\* finishes, get_rag swallows its exception (lines 53-55) and returns the
\* rag_system of that moment, and the handler goes on.
get_rag_resume(t) ==
    /\ pc[t] = "get_rag_fetch"
    /\ \E fetch \in FetchOutcomes :
        LET built == build_knowledge_base(chroma, rags[self[t]], fetch)
            outcome == IF built.raised THEN "failed" ELSE "ok"
            rgs == [rags EXCEPT ![self[t]].init = outcome]
            h == [hist[t] EXCEPT !.init_build = outcome]
            b == [build |-> outcome, fetch |-> fetch, produced |-> built.produced]
        IN  Body(t, op[t], arg[t], rag_system, rgs, built.chroma, h, b)
    /\ UNCHANGED <<rag_system, rebuild_requested>>

\* The fetch of the build started by rebuild_kedro_knowledge (line 202)
\* returns: lines 202-215.
rebuild_resume(t) ==
    /\ pc[t] = "rebuild_fetch"
    /\ \E fetch \in FetchOutcomes :
        LET rag == rags[self[t]]
            built == build_knowledge_base(chroma, rag, fetch)
            chunks == collection_count(built.chroma, rag.collection)
            b == [build |-> IF built.raised THEN "failed" ELSE "ok",
                  fetch |-> fetch, produced |-> built.produced]
        IN  /\ chroma' = built.chroma
            /\ Return(t, op[t], arg[t],
                      IF built.raised \/ chunks < 0 THEN Error ELSE Success(chunks),
                      hist[t], b)
    /\ UNCHANGED <<rag_system, rags, now, rebuild_requested>>

Init ==
    /\ rag_system = 0
    /\ rags = <<>>
    /\ chroma \in InitialStores
    /\ now = 0
    /\ pc = [t \in Tasks |-> "idle"]
    /\ op = [t \in Tasks |-> "none"]
    /\ arg = [t \in Tasks |-> NoArg]
    /\ self = [t \in Tasks |-> 0]
    /\ hist = [t \in Tasks |-> NoHist]
    /\ last = NoCall
    /\ rebuild_requested = FALSE
    /\ builds = 0
    /\ call = NotCalled

Next ==
    \/ \E t \in Tasks : search_kedro_docs(t)
    \/ \E t \in Tasks : get_kedro_context(t)
    \/ \E t \in Tasks : kedro_knowledge_stats(t)
    \/ \E t \in Tasks : rebuild_kedro_knowledge(t)
    \/ \E t \in Tasks : add_slack_channel_data(t)
    \/ \E t \in Tasks : search_with_source_filter(t)
    \/ \E t \in Tasks : get_rag_resume(t)
    \/ \E t \in Tasks : rebuild_resume(t)

Spec == Init /\ [][Next]_vars

\* The server as long as nobody asks for a rebuild: every handler that
\* reaches the knowledge base through get_rag alone.
NextFirstUse ==
    \/ \E t \in Tasks : search_kedro_docs(t)
    \/ \E t \in Tasks : get_kedro_context(t)
    \/ \E t \in Tasks : kedro_knowledge_stats(t)
    \/ \E t \in Tasks : add_slack_channel_data(t)
    \/ \E t \in Tasks : search_with_source_filter(t)
    \/ \E t \in Tasks : get_rag_resume(t)

SpecFirstUse == Init /\ [][NextFirstUse]_vars

\* The server with at most MaxCallers tool calls made, every tool allowed.
MaxCallers == 2
Callers == 1..MaxCallers

NextFewCallers ==
    \/ \E t \in Callers : search_kedro_docs(t)
    \/ \E t \in Callers : get_kedro_context(t)
    \/ \E t \in Callers : kedro_knowledge_stats(t)
    \/ \E t \in Callers : rebuild_kedro_knowledge(t)
    \/ \E t \in Callers : add_slack_channel_data(t)
    \/ \E t \in Callers : search_with_source_filter(t)
    \/ \E t \in Callers : get_rag_resume(t)
    \/ \E t \in Callers : rebuild_resume(t)

SpecFewCallers == Init /\ [][NextFewCallers]_vars

(***************************************************************************)
(* KedroRAG methods called directly on one object, outside any handler.    *)
(* The variables of the server keep the values of a process that has       *)
(* served nothing.                                                         *)
(***************************************************************************)
server == <<rag_system, pc, op, arg, self, hist, last, rebuild_requested, builds>>

NothingServed ==
    /\ rag_system = 0
    /\ pc = [t \in Tasks |-> "idle"]
    /\ op = [t \in Tasks |-> "none"]
    /\ arg = [t \in Tasks |-> NoArg]
    /\ self = [t \in Tasks |-> 0]
    /\ hist = [t \in Tasks |-> NoHist]
    /\ last = NoCall
    /\ rebuild_requested = FALSE
    /\ builds = 0

\* the texts handed to format_documentation: every text of at most
\* MaxBlobLen characters of BlobChars, and the example of the documentation
MaxBlobLen == 4
BlobChars == {"a", "\n", "#", " "}
SectionsExample ==
    <<"i", "n", "t", "r", "o", "\n", "#", " ", "S", "e", "c", "t", "i", "o", "n", " ", "A", "\n", "f", "o", "o", "\n", "#", " ", "S", "e", "c", "t", "i", "o", "n", " ", "B", "\n", "b", "a", "r">>
Blobs ==
    UNION {[1..k -> BlobChars] : k \in 0..MaxBlobLen} \cup {SectionsExample}

format_documentation_call ==
    /\ \E content \in Blobs :
          call' = [fn |-> "format_documentation", content |-> content,
                   chunks |-> format_documentation(content)]
    /\ UNCHANGED <<rags, chroma, now, server>>

InitChunker ==
    /\ NothingServed
    /\ rags = <<>>
    /\ chroma = [cur |-> 0, recs |-> NoRecords]
    /\ now = 0
    /\ call = NotCalled

NextChunker == format_documentation_call

SpecChunker == InitChunker /\ [][NextChunker]_vars

\* Ingestion called once on an object whose collection has uuid 1: the
\* collection is empty, holds documentation, holds the Slack message 0 of
\* time 0, or has been deleted and recreated behind the object's back.
MaxMessages == 3
SlackMetadata ==
    [channel |-> "general", user |-> "Unknown User",
     timestamp |-> "Unknown time", message_type |-> "message"]
SlackContents == {<<>>, <<" ", "\n">>, <<"a">>, <<" ", "b">>}
SlackMessages == {[content |-> x, metadata |-> SlackMetadata] : x \in SlackContents}
SlackMessageLists == UNION {[1..k -> SlackMessages] : k \in 0..MaxMessages}

TheRag == [collection |-> 1, init |-> "none", unembeddable |-> {}]
IngestStores ==
    { [cur |-> 1, recs |-> NoRecords],
      StoreOf(DocA),
      add_slack_data([cur |-> 1, recs |-> NoRecords], TheRag,
                     << [content |-> <<"a">>, metadata |-> SlackMetadata] >>,
                     "general", 0).chroma,
      [cur |-> 2, recs |-> NoRecords] }

build_knowledge_base_call ==
    /\ call.fn = "none"
    /\ \E fetch \in FetchOutcomes :
          LET built == build_knowledge_base(chroma, rags[1], fetch)
          IN  /\ chroma' = built.chroma
              /\ call' = [fn |-> "build_knowledge_base", fetch |-> fetch,
                          before |-> chroma, raised |-> built.raised,
                          writes |-> built.writes,
                          add_calls |-> built.add_calls]
    /\ UNCHANGED <<rags, now, server>>

add_slack_data_call ==
    /\ call.fn = "none"
    /\ \E slack_messages \in SlackMessageLists, ts \in now..MaxNow :
          LET added == add_slack_data(chroma, rags[1], slack_messages,
                                      "general", ts)
          IN  /\ chroma' = added.chroma
              /\ now' = ts
              /\ call' = [fn |-> "add_slack_data",
                          slack_messages |-> slack_messages, ts |-> ts,
                          before |-> chroma, raised |-> added.raised,
                          writes |-> added.writes,
                          add_calls |-> added.add_calls]
    /\ UNCHANGED <<rags, server>>

\* an embedder that embeds everything, and one that raises on the text "a"
Embedders == {{}, {<<"a">>}}

InitIngest ==
    /\ NothingServed
    /\ rags \in {<< [TheRag EXCEPT !.unembeddable = u] >> : u \in Embedders}
    /\ chroma \in IngestStores
    /\ now = 0
    /\ call = NotCalled

NextIngest ==
    \/ build_knowledge_base_call
    \/ add_slack_data_call

SpecIngest == InitIngest /\ [][NextIngest]_vars

\* Searches on an object whose collection has uuid 1: the collection is
\* empty, holds documentation, Slack messages or both, or has been deleted
\* and recreated behind the object's back.
\* the raw messages conversations_history delivers: a message without the
\* key "subtype" has subtype "", "file_share" stands for the subtypes
\* format_messages_for_rag does not name
MaxRawMessages == 2
RawTexts == {<<" ">>, <<"o", "k">>, <<" ", "W", "H", "Y", " ">>, <<"o", "k", "?">>}
RawSubtypes == SkippedSubtypes \cup {"", "file_share"}
RawMessages == [text : RawTexts, subtype : RawSubtypes]
RawMessageLists == UNION {[1..k -> RawMessages] : k \in 0..MaxRawMessages}

format_messages_for_rag_call ==
    /\ call.fn = "none"
    /\ \E messages \in RawMessageLists, filter_questions \in BOOLEAN :
          call' = [fn |-> "format_messages_for_rag", messages |-> messages,
                   filter_questions |-> filter_questions,
                   formatted_messages |->
                       format_messages_for_rag(messages, "general", filter_questions)]
    /\ UNCHANGED <<rags, chroma, now, server>>

fetch_and_store_slack_data_call ==
    /\ call.fn = "none"
    /\ \E messages \in RawMessageLists, ok \in BOOLEAN, ts \in now..MaxNow :
          LET slack == [ok |-> ok, channel_name |-> "general",
                        messages |-> IF ok THEN messages ELSE <<>>]
              result == fetch_and_store_slack_data(chroma, rags[1], slack, ts)
          IN  /\ chroma' = result.chroma
              /\ now' = ts
              /\ call' = [fn |-> "fetch_and_store_slack_data", slack |-> slack,
                          ts |-> ts, before |-> chroma,
                          messages_added |-> result.messages_added]
    /\ UNCHANGED <<rags, server>>

InitSlack ==
    /\ NothingServed
    /\ rags = << TheRag >>
    /\ chroma \in IngestStores
    /\ now = 0
    /\ call = NotCalled

NextSlack ==
    \/ format_messages_for_rag_call
    \/ fetch_and_store_slack_data_call

SpecSlack == InitSlack /\ [][NextSlack]_vars

SearchFilters == {None, "", "kedro_docs", "slack"}
SlackStore ==
    add_slack_data([cur |-> 1, recs |-> NoRecords], TheRag,
                   << [content |-> <<"a">>, metadata |-> SlackMetadata] >>,
                   "general", 0).chroma
SearchStores ==
    { [cur |-> 1, recs |-> NoRecords],
      StoreOf(DocA),
      SlackStore,
      add_slack_data(StoreOf(DocA), TheRag,
                     << [content |-> <<"a">>, metadata |-> SlackMetadata] >>,
                     "general", 0).chroma,
      [cur |-> 2, recs |-> NoRecords] }

search_call ==
    /\ \E ranking \in Rankings(chroma), source_filter \in SearchFilters,
          top_k \in NumResults :
          LET found == search_results(chroma, rags[1], "kedro", ranking,
                                      source_filter, top_k)
          IN  call' = [fn |-> "search", ranking |-> ranking,
                       source_filter |-> source_filter, n |-> top_k,
                       raised |-> found.raised, results |-> found.results]
    /\ UNCHANGED <<rags, chroma, now, server>>

search_docs_call ==
    /\ \E ranking \in Rankings(chroma), num_results \in NumResults :
          LET found == search_docs_results(chroma, rags[1], "kedro", ranking,
                                           num_results)
          IN  call' = [fn |-> "search_docs", ranking |-> ranking,
                       source_filter |-> None, n |-> num_results,
                       raised |-> found.raised, results |-> found.results]
    /\ UNCHANGED <<rags, chroma, now, server>>

InitSearch ==
    /\ NothingServed
    /\ rags = << TheRag >>
    /\ chroma \in SearchStores
    /\ now = 0
    /\ call = NotCalled

NextSearch ==
    \/ search_call
    \/ search_docs_call

SpecSearch == InitSearch /\ [][NextSearch]_vars

(***************************************************************************)
(* Properties                                                              *)
(***************************************************************************)
Fetching(t) == pc[t] \in {"get_rag_fetch", "rebuild_fetch"}

\* task t takes a step of its handler, task t's handler returns in the step
Steps(t) == pc'[t] # pc[t]
Returns(t) == pc[t] # "done" /\ pc'[t] = "done"

\* the tool whose handler task t runs in the step
StepTool(t) == IF pc'[t] = "done" THEN last'.op ELSE op'[t]

ReadTools == {"search_kedro_docs", "search_with_source_filter", "kedro_knowledge_stats"}

\* C1: as long as no rebuild was requested, however the first-use calls of
\* get_rag interleave, at most one KedroRAG object exists, at most one
\* build_knowledge_base execution was started, and at most one task is
\* suspended in the build of get_rag.
C1_SingleFlightFirstUse ==
    ~rebuild_requested =>
        /\ Len(rags) <= 1
        /\ builds <= 1
        /\ Cardinality({t \in Tasks : pc[t] = "get_rag_fetch"}) <= 1

\* a second caller came and went while the first is suspended in the build
C1_Witness ==
    /\ ~rebuild_requested
    /\ pc[1] = "get_rag_fetch"
    /\ pc[2] = "done"
    /\ builds = 1

\* C2: get_rag hands out the shared handle only once its initial build is
\* over: no query returns successfully from a handle whose build, started
\* by get_rag, is still suspended at the fetch.
C2_NoQueryServedDuringInit ==
    [][\A t \in Tasks :
          (Returns(t) /\ last'.op \in ReadTools /\ ~last'.resp.error)
              => rags'[rag_system'].init # "building"]_vars

\* C3: while a rebuild is between deleting the collection and writing the
\* new records, a read that returns returns an error.
C3_NoReadDuringRebuild ==
    [][\A t \in Tasks :
          (/\ Returns(t)
           /\ last'.op \in ReadTools
           /\ \E u \in Tasks \ {t} : pc[u] = "rebuild_fetch")
              => last'.resp.error]_vars

\* C4: when the fetch of a rebuild fails, the rebuild reports failure and
\* the collection holds exactly the records it held when the rebuild was
\* requested.
C4_FailedRebuildKeepsRecords ==
    [][\A t \in Tasks :
          (pc[t] = "rebuild_fetch" /\ Returns(t) /\ last'.fetch.kind = "raise")
              => /\ last'.resp.error
                 /\ chroma'.recs = hist[t].before]_vars

\* C5: once the build get_rag ran for the shared handle has failed and the
\* collection is still empty, the next tool call that goes through get_rag
\* attempts the build again.
C5_RetryAfterFailedBuild ==
    [][\A t \in Tasks :
          (/\ pc[t] = "idle" /\ Steps(t)
           /\ StepTool(t) # "rebuild_kedro_knowledge"
           /\ rag_system # 0
           /\ rags[rag_system].init = "failed"
           /\ collection_count(chroma, rags[rag_system].collection) = 0)
              => pc'[t] = "get_rag_fetch"]_vars

\* C6: a tool call whose get_rag attempted the build and saw it fail returns
\* a dict that carries an error.
C6_FailedInitBuildIsReported ==
    (last.op \notin {"none", "rebuild_kedro_knowledge"} /\ last.init_build = "failed")
        => last.resp.error

\* C7: when rebuild_kedro_knowledge returns success, the count it reports is
\* the number of records its own ingestion produced.
C7_RebuildCountIsProduced ==
    (last.op = "rebuild_kedro_knowledge" /\ ~last.resp.error)
        => last.resp.n = last.produced

\* C8: when a build that ends its handler writes a chunk whose id the
\* collection already holds, the stored document of that id is the chunk's
\* text afterwards.
C8_ReAddOverwrites ==
    [][\A t \in Tasks :
          (/\ Fetching(t) /\ Returns(t)
           /\ last'.fetch.kind = "response"
           /\ Live(chroma, rags[self[t]].collection))
              => LET chunks == format_documentation(last'.fetch.text)
                 IN  \A i \in 1..Len(chunks) :
                        chunks[i].chunk_id \in DOMAIN chroma.recs
                           => /\ chunks[i].chunk_id \in DOMAIN chroma'.recs
                              /\ chroma'.recs[chunks[i].chunk_id].document
                                     = chunks[i].text]_vars

DocIds(c) == {id \in DOMAIN c.recs : c.recs[id].metadata.source = "kedro_docs"}

\* C9: when the documentation endpoint answers with a status that is not
\* 2xx, the build fails and stores no documentation record.
C9_Non2xxFailsBuild ==
    [][\A t \in Tasks :
          (/\ Fetching(t) /\ Returns(t)
           /\ last'.fetch.kind = "response"
           /\ ~Is2xx(last'.fetch.status))
              => /\ last'.build = "failed"
                 /\ DocIds(chroma') \subseteq DocIds(chroma)]_vars

\* C10: no step of a rebuild_kedro_knowledge handler that starts with the
\* shared handle present leaves it absent.
C10_RebuildKeepsHandle ==
    [][\A t \in Tasks :
          (Steps(t) /\ StepTool(t) = "rebuild_kedro_knowledge" /\ rag_system # 0)
              => rag_system' # 0]_vars

Formatted == call.fn = "format_documentation"

\* C11: format_documentation returns the same mapping on every run, and the
\* mapping holds exactly the non-blank spans of the heading split, each
\* under the ordinal it has among all the spans, blank ones counted.
C11_OrdinalIsSpanIndex ==
    Formatted =>
        LET sections == re_split(call.content)
            kept == {i \in 0..(Len(sections) - 1) : strip(sections[i + 1]) # <<>>}
            chunks == call.chunks
        IN  /\ format_documentation(call.content) = chunks
            /\ Len(chunks) = Cardinality(kept)
            /\ \A k \in 1..Len(chunks) :
                  \E i \in kept :
                     /\ chunks[k].chunk_id = DocChunkId(i)
                     /\ chunks[k].text = strip(sections[i + 1])
            /\ \A i \in kept :
                  \E k \in 1..Len(chunks) : chunks[k].chunk_id = DocChunkId(i)

\* a blank span comes first: the only chunk kept has ordinal 1
C11_Witness ==
    /\ Formatted
    /\ call.content = <<"\n", "#", " ", "a">>
    /\ call.chunks = << [chunk_id |-> DocChunkId(1), text |-> <<"a">>] >>

\* C12: "intro\n# Section A\nfoo\n# Section B\nbar" yields exactly the three
\* chunks 0, 1, 2 with the texts "intro", "foo" and "bar".
C12_SectionsExample ==
    (Formatted /\ call.content = SectionsExample) =>
        call.chunks = << [chunk_id |-> DocChunkId(0), text |-> <<"i", "n", "t", "r", "o">>],
                         [chunk_id |-> DocChunkId(1), text |-> <<"f", "o", "o">>],
                         [chunk_id |-> DocChunkId(2), text |-> <<"b", "a", "r">>] >>

\* a line of the text begins with one to three '#' followed by whitespace
HasHeadingLine(content) ==
    \E p \in 1..Len(content) :
        /\ p = 1 \/ content[p - 1] = "\n"
        /\ LET h == RunLen(content, p, {"#"})
           IN  /\ h >= 1 /\ h <= 3
               /\ p + h <= Len(content)
               /\ content[p + h] \in Whitespace

OneChunkOrdinal0 ==
    /\ Len(call.chunks) = 1
    /\ call.chunks[1].chunk_id = DocChunkId(0)

\* C13 as stated: every text without a heading line yields exactly one
\* chunk, of ordinal 0.
C13_NoHeadingOneChunk ==
    (Formatted /\ ~HasHeadingLine(call.content)) => OneChunkOrdinal0

\* C13 amended: every text without a heading line that is not blank yields
\* exactly one chunk, of ordinal 0, whose text is the stripped text.
C13_NoHeadingNonBlankOneChunk ==
    (Formatted /\ ~HasHeadingLine(call.content) /\ strip(call.content) # <<>>)
        => /\ OneChunkOrdinal0
           /\ call.chunks[1].text = strip(call.content)

\* a '#' that starts a line but is followed by no whitespace is no heading
C13_Witness ==
    /\ Formatted
    /\ call.content = <<"a", "\n", "#", "a">>
    /\ ~HasHeadingLine(call.content)
    /\ OneChunkOrdinal0

\* C14: when the fetched text yields no chunk, build_knowledge_base makes no
\* collection.add call, does not raise and leaves the collection as it was.
C14_NoWriteOfEmptyBatch ==
    (/\ call.fn = "build_knowledge_base"
     /\ call.fetch.kind = "response"
     /\ format_documentation(call.fetch.text) = <<>>)
        => /\ call.writes = <<>>
           /\ ~call.raised
           /\ chroma = call.before

IsBlank(message) == strip(message.content) = <<>>

AddedSlack == call.fn = "add_slack_data"

\* C15: when every message handed to add_slack_data is blank (the empty
\* list included), add_slack_data makes no collection.add call, does not
\* raise and leaves the collection unchanged.
C15_AllBlankNoWrite ==
    (AddedSlack /\ \A i \in 1..Len(call.slack_messages) : IsBlank(call.slack_messages[i]))
        => /\ call.writes = <<>>
           /\ ~call.raised
           /\ chroma = call.before

\* two blank messages handed to an object whose collection holds records
C15_Witness ==
    /\ AddedSlack
    /\ Len(call.slack_messages) = 2
    /\ \A i \in 1..2 : IsBlank(call.slack_messages[i])
    /\ call.before.recs # NoRecords
    /\ call.writes = <<>>

\* the ids add_slack_data gives the non-blank messages of the call
NewSlackIds ==
    {SlackId("general", i - 1, call.ts) :
        i \in {j \in 1..Len(call.slack_messages) : ~IsBlank(call.slack_messages[j])}}

\* the embedder embeds every non-blank message of the call
Embeddable ==
    \A i \in 1..Len(call.slack_messages) :
        IsBlank(call.slack_messages[i])
        \/ call.slack_messages[i].content \notin rags[1].unembeddable

\* C16: a call of add_slack_data through a live handle, with an embedder
\* that embeds its messages, whose k non-blank messages get ids not yet
\* stored raises the count by exactly k; the
\* records added are those k messages, none of them blank, and the records
\* stored before are kept.
C16_SkipsExactlyBlank ==
    (/\ AddedSlack
     /\ Live(call.before, rags[1].collection)
     /\ Embeddable
     /\ NewSlackIds \cap DOMAIN call.before.recs = {})
        => /\ ~call.raised
           /\ Cardinality(DOMAIN chroma.recs)
                = Cardinality(DOMAIN call.before.recs) + Cardinality(NewSlackIds)
           /\ DOMAIN chroma.recs = DOMAIN call.before.recs \cup NewSlackIds
           /\ \A id \in NewSlackIds : strip(chroma.recs[id].document) # <<>>
           /\ \A id \in DOMAIN call.before.recs : chroma.recs[id] = call.before.recs[id]

\* blank, non-blank, blank: one record more, under the ordinal 1
C16_Witness ==
    /\ AddedSlack
    /\ Len(call.slack_messages) = 3
    /\ IsBlank(call.slack_messages[1])
    /\ ~IsBlank(call.slack_messages[2])
    /\ IsBlank(call.slack_messages[3])
    /\ call.before.recs # NoRecords
    /\ DOMAIN chroma.recs = DOMAIN call.before.recs \cup {SlackId("general", 1, call.ts)}

Searched == call.fn \in {"search", "search_docs"}

\* C17: every record search returns for a source_filter s that is given
\* (not None) has the metadata source s.
C17_FilterRestrictsSource ==
    (call.fn = "search" /\ call.source_filter # None)
        => \A i \in 1..Len(call.results) :
              call.results[i].source = call.source_filter

\* C18: on a collection that is not empty, search and search_docs return at
\* most n_results records, the nearest matching ones in the order of the
\* store, each with relevance_score = 1 - distance, so that the scores
\* never increase along the list.
C18_AtMostNByRelevance ==
    (Searched /\ chroma.recs # NoRecords)
        => LET Matches(h) == where_clause(call.source_filter) = ""
                             \/ chroma.recs[h[1]].metadata.source
                                    = where_clause(call.source_filter)
               matching == SelectSeq(call.ranking, Matches)
               results == call.results
           IN  /\ ~call.raised
               /\ Len(results) <= call.n
               /\ Len(results) <= Len(matching)
               /\ \A i \in 1..Len(results) :
                     /\ results[i].content = chroma.recs[matching[i][1]].document
                     /\ results[i].relevance_score = 1 - matching[i][2]
               /\ \A i, j \in 1..Len(results) :
                     i < j => results[i].relevance_score >= results[j].relevance_score

\* three records at three distances, five asked for: scores 1, 0, -1
C18_Witness ==
    /\ call.fn = "search"
    /\ call.n = 5
    /\ Len(call.results) = 3
    /\ call.results[1].relevance_score = 1
    /\ call.results[2].relevance_score = 0
    /\ call.results[3].relevance_score = 1 - MaxDistance
    /\ call.results[1].source = "slack"

\* no record of the collection matches the where clause of the call
NothingMatches ==
    \A id \in DOMAIN chroma.recs :
        /\ where_clause(call.source_filter) # ""
        /\ chroma.recs[id].metadata.source # where_clause(call.source_filter)

\* C19: on an empty collection, and with a filter no record matches, search
\* and search_docs do not raise and return the empty list.
C19_EmptyResultNoError ==
    (Searched /\ Live(chroma, rags[1].collection) /\ NothingMatches)
        => /\ ~call.raised
           /\ call.results = <<>>

\* a search for Slack records in a collection that holds documentation only
C19_Witness ==
    /\ call.fn = "search"
    /\ call.source_filter = "slack"
    /\ chroma = StoreOf(DocA)
    /\ ~call.raised
    /\ call.results = <<>>

\* C20: get_kedro_context served on an initialized knowledge base (shared
\* handle present, its collection alive) returns a dict without an error,
\* carrying the context string of get_context.
C20_ContextIsNotAnError ==
    (/\ last.op = "get_kedro_context"
     /\ rag_system # 0
     /\ Live(chroma, rags[rag_system].collection))
        => ~last.resp.error

QueryTools == {"search_kedro_docs", "search_with_source_filter", "get_kedro_context"}

\* the dict carries an error flag: an "error" key, or status "error"
HasErrorFlag(dict) ==
    \/ "error" \in DOMAIN dict
    \/ "status" \in DOMAIN dict /\ dict.status = "error"

\* the dict carries an empty result set: results [] with total_results 0,
\* or an empty context
HasEmptyResultSet(dict) ==
    \/ /\ "results" \in DOMAIN dict /\ dict.results = <<>>
       /\ "total_results" \in DOMAIN dict /\ dict.total_results = 0
    \/ "context" \in DOMAIN dict /\ dict.context = <<>>

\* C21: a query tool whose call failed returns a dict that carries an
\* error flag together with an empty result set.
C21_QueryErrorHasEmptyResults ==
    (last.op \in QueryTools /\ last.resp.error)
        => /\ HasErrorFlag(error_response(last.op))
           /\ HasEmptyResultSet(error_response(last.op))

\* C22: no tool lets an exception escape: a handler is idle, suspended at
\* a fetch or has returned, and what it returned is a dict that tells
\* success (with its count) or carries the error flag of its except clause.
C22_NoExceptionEscapes ==
    /\ \A t \in Tasks : pc[t] \in {"idle", "get_rag_fetch", "rebuild_fetch", "done"}
    /\ last.op # "none" =>
          IF last.resp.error
          THEN HasErrorFlag(error_response(last.op))
          ELSE last.resp.n >= 0

\* a rebuild whose KedroRAG() raised while another rebuild was suspended
\* at a fetch that raised in its turn: both returned the error dict
C22_Witness ==
    /\ pc[1] = "done" /\ pc[2] = "done"
    /\ last.op = "rebuild_kedro_knowledge"
    /\ last.fetch.kind = "raise"
    /\ last.resp.error
    /\ rag_system = 0


\* the ids add_slack_data gives the non-blank messages of the call that the
\* embedder can embed
EmbeddableSlackIds ==
    {SlackId("general", i - 1, call.ts) :
        i \in {j \in 1..Len(call.slack_messages) :
                  /\ ~IsBlank(call.slack_messages[j])
                  /\ call.slack_messages[j].content \notin rags[1].unembeddable}}

\* C23: an embedding failure on one item is skipped per item: after a call
\* of add_slack_data through a live handle, every non-blank message that the
\* embedder can embed is stored, whatever becomes of the other messages of
\* the call.
C23_EmbeddingFailureSkipsItem ==
    (AddedSlack /\ Live(call.before, rags[1].collection))
        => EmbeddableSlackIds \subseteq DOMAIN chroma.recs

\* the count get_rag reads (line 46) from the collection KedroRAG() opens
OpenedCount ==
    LET new == KedroRAG_init(chroma)
    IN  collection_count(new.chroma, new.rag.collection)

\* this step creates a KedroRAG object: the get_rag call of the step found
\* rag_system unset
CreatesRag == Len(rags') = Len(rags) + 1

C25_AlwaysAppendsK ==
    (AddedSlack /\ Live(call.before, rags[1].collection) /\ Embeddable)
        => Cardinality(DOMAIN chroma.recs)
             = Cardinality(DOMAIN call.before.recs)
               + Cardinality({j \in 1..Len(call.slack_messages) :
                                ~IsBlank(call.slack_messages[j])})

\* C26: whatever rebuilds and first uses overlap, at most one
\* build_knowledge_base execution is suspended at its fetch at a time.
C26_OneIngestionInFlight ==
    Cardinality({t \in Tasks : Fetching(t)}) <= 1

\* only the first tool call was made so far, and it is a rebuild
OnlyOneRebuildCalled ==
    /\ \A t \in Tasks : t # 1 => pc[t] = "idle"
    /\ \/ op[1] = "rebuild_kedro_knowledge"
       \/ last.op = "rebuild_kedro_knowledge"

\* C27: a single rebuild_kedro_knowledge call starts at most one
\* build_knowledge_base execution (one fetch, one store write), from every
\* starting state.
C27_RebuildIngestsOnce == OnlyOneRebuildCalled => builds <= 1

\* C28: as long as no rebuild_kedro_knowledge call is made, no step of
\* get_rag, of a search, of the stats or of an ingestion takes an id out of
\* the store, changes a stored record or lowers the count.
C28_OnlyRebuildDestroys ==
    [][/\ DOMAIN chroma.recs \subseteq DOMAIN chroma'.recs
       /\ \A id \in DOMAIN chroma.recs : chroma'.recs[id] = chroma.recs[id]
       /\ Cardinality(DOMAIN chroma'.recs) >= Cardinality(DOMAIN chroma.recs)
      ]_vars

\* Slack messages were added to a store that held the documentation
C28_Witness ==
    /\ ~rebuild_requested
    /\ last.op = "add_slack_channel_data"
    /\ ~last.resp.error
    /\ last.resp.n > 0
    /\ DocIds(chroma) # {}
    /\ DOMAIN chroma.recs # DocIds(chroma)

\* record r was made of one of the raw messages: a message that is not of
\* a skipped subtype and whose stripped text is the content of r
EmittedFrom(r, messages) ==
    \E j \in 1..Len(messages) :
        /\ messages[j].subtype \notin SkippedSubtypes
        /\ strip(messages[j].text) = r.content

\* the records the fetch_and_store_slack_data call added to the store
StoredBySlackCall == DOMAIN chroma.recs \ DOMAIN call.before.recs

\* C29: with filter_questions, every record format_messages_for_rag emits
\* is question-like (_is_question holds of its content), carries
\* message_type "question", is not blank and comes from a message whose
\* subtype is none of bot_message, channel_join, channel_leave; and every
\* record a fetch_and_store_slack_data call stores is question-like with
\* message_type "question".
C29_OnlyQuestionsReachIngestion ==
    /\ (call.fn = "format_messages_for_rag" /\ call.filter_questions)
          => \A i \in 1..Len(call.formatted_messages) :
                LET r == call.formatted_messages[i]
                IN  /\ is_question(r.content)
                    /\ r.metadata.message_type = "question"
                    /\ strip(r.content) # <<>>
                    /\ EmittedFrom(r, call.messages)
    /\ call.fn = "fetch_and_store_slack_data"
          => \A id \in StoredBySlackCall :
                /\ chroma.recs[id].metadata.message_type = "question"
                /\ chroma.recs[id].metadata.source = "slack"
                /\ is_question(chroma.recs[id].document)

\* a question of a bot and a question of a user were fetched: one record,
\* the user's, was stored beside the records of the documentation
C29_Witness ==
    /\ call.fn = "fetch_and_store_slack_data"
    /\ Len(call.slack.messages) = 2
    /\ call.slack.messages[1].subtype = "bot_message"
    /\ is_question(strip(call.slack.messages[1].text))
    /\ call.slack.messages[2].subtype = ""
    /\ is_question(strip(call.slack.messages[2].text))
    /\ call.before.recs # NoRecords
    /\ StoredBySlackCall = {SlackId("general", 0, call.ts)}

\* the position in call.slack_messages of the i-th non-blank message
NonBlankIndex(i) ==
    CHOOSE j \in 1..Len(call.slack_messages) :
        /\ ~IsBlank(call.slack_messages[j])
        /\ Cardinality({m \in 1..j : ~IsBlank(call.slack_messages[m])}) = i

\* the four lists of one collection.add call have one length
EqualLengths(a) ==
    /\ Len(a.embeddings) = Len(a.ids)
    /\ Len(a.documents) = Len(a.ids)
    /\ Len(a.metadatas) = Len(a.ids)

\* C30: in every collection.add call of build_knowledge_base and of
\* add_slack_data the lists ids, embeddings, documents and metadatas have
\* one length and position i of each belongs to the same item: for the
\* documentation the i-th chunk of format_documentation (ids[i] and
\* metadatas[i].chunk_id are its id, documents[i] its text), for Slack the
\* i-th non-blank message (ids[i] carries its ordinal, documents[i] is its
\* content, metadatas[i] its message_type); embeddings[i] is the embedding
\* of documents[i].
C30_AddArgumentsAligned ==
    /\ call.fn = "build_knowledge_base"
          => \A k \in 1..Len(call.add_calls) :
                LET a == call.add_calls[k]
                    chunks == format_documentation(content_of(call.fetch))
                IN  /\ EqualLengths(a)
                    /\ Len(a.ids) = Len(chunks)
                    /\ \A i \in 1..Len(a.ids) :
                          /\ a.ids[i] = chunks[i].chunk_id
                          /\ a.metadatas[i] = [chunk_id |-> a.ids[i], source |-> "kedro_docs"]
                          /\ a.documents[i] = chunks[i].text
                          /\ a.embeddings[i] = embed(a.documents[i])
    /\ call.fn = "add_slack_data"
          => \A k \in 1..Len(call.add_calls) :
                LET a == call.add_calls[k]
                IN  /\ EqualLengths(a)
                    /\ Len(a.ids) = Cardinality({j \in 1..Len(call.slack_messages) :
                                                   ~IsBlank(call.slack_messages[j])})
                    /\ \A i \in 1..Len(a.ids) :
                          LET message == call.slack_messages[NonBlankIndex(i)]
                          IN  /\ a.ids[i] = SlackId("general", NonBlankIndex(i) - 1, call.ts)
                              /\ a.documents[i] = message.content
                              /\ a.metadatas[i].source = "slack"
                              /\ a.metadatas[i].message_type = message.metadata.message_type
                              /\ a.embeddings[i] = embed(a.documents[i])

\* a build that handed two chunks or more to collection.add
C30_Witness ==
    /\ call.fn = "build_knowledge_base"
    /\ ~call.raised
    /\ Len(call.add_calls) = 1
    /\ Len(call.add_calls[1].ids) >= 2
    /\ call.add_calls[1].ids[2] = DocChunkId(1)
    /\ call.add_calls[1].metadatas[2].chunk_id = DocChunkId(1)

====
